---------------------------- MODULE Spec2Model ----------------------------
(***************************************************************************)
(* RFC 2047 encoding and decoding of header text, after rfc2047.c.         *)
(*                                                                         *)
(* Text is a sequence of bytes (0..255).  A C pointer into a buffer is the *)
(* 0-based offset into that sequence; offset Len(u) reads the terminating  *)
(* NUL.  A character set is a record [name, len, kind]: len is             *)
(* strlen(name) and kind selects how the converter (iconv) treats it.      *)
(***************************************************************************)
EXTENDS Integers, Sequences, FiniteSets, TLC

ENCWORD_LEN_MAX == 75
ENCWORD_LEN_MIN == 9

\* Largest number of codepoints (or tokens) of a generated input text.
MaxAtoms == 3
\* Cap on the encoded words one call may emit (stops a run that makes no progress).
MaxWords == 4

HSPACE(x) == x = 0 \/ x = 32 \/ x = 9

CONTINUATION_BYTE(c) == c >= 128 /\ c < 192

HighBit(c) == c >= 128

\* "@.,;:<>[]\\\"()?/= \t"
MimeSpecials == {64, 46, 44, 59, 58, 60, 62, 91, 93, 92, 34, 40, 41, 63, 47, 61, 32, 9}

\* "@.,:;<>[]\\\"()"
RFC822Specials == {64, 46, 44, 58, 59, 60, 62, 91, 93, 92, 34, 40, 41}

\* u[i] for a 0-based offset i; the byte after the text is the NUL terminator.
At(u, i) == IF i >= 0 /\ i < Len(u) THEN u[i + 1] ELSE 0

\* The bytes [off, off+n) of u, the NUL terminator included when the span
\* runs over the end of the text.
Span(u, off, n) == [k \in 1..n |-> At(u, off + k - 1)]

Min2(a, b) == IF a < b THEN a ELSE b
Max2(a, b) == IF a > b THEN a ELSE b

Lowest(X) == CHOOSE x \in X : \A y \in X : x <= y
Highest(X) == CHOOSE x \in X : \A y \in X : x >= y

\* The sequences F[lo], ..., F[hi] one after the other, F a function from
\* offsets to sequences; an offset outside its domain adds nothing.
RECURSIVE Cat(_, _, _)
Cat(F, lo, hi) ==
  IF lo > hi THEN <<>>
  ELSE IF lo = hi THEN (IF lo \in DOMAIN F THEN F[lo] ELSE <<>>)
  ELSE Cat(F, lo, (lo + hi) \div 2) \o Cat(F, (lo + hi) \div 2 + 1, hi)

(***************************************************************************)
(* Character sets                                                          *)
(***************************************************************************)
Utf8 == [name |-> "utf-8", len |-> 5, kind |-> "utf8"]
Latin1 == [name |-> "iso-8859-1", len |-> 10, kind |-> "latin1"]
UsAscii == [name |-> "us-ascii", len |-> 8, kind |-> "ascii"]
Translit == [name |-> "ascii//translit", len |-> 15, kind |-> "translit"]
Latin1Translit == [name |-> "iso-8859-1//translit", len |-> 20, kind |-> "latin1t"]
Iso2022Jp == [name |-> "iso-2022-jp", len |-> 11, kind |-> "ascii"]
Unknown8bit == [name |-> "unknown-8bit", len |-> 12, kind |-> "none"]
\* UTF-8 under names of 64 and 66 characters.
LongName64 == [name |-> "utf-8-alias-64", len |-> 64, kind |-> "utf8"]
LongName66 == [name |-> "utf-8-alias-66", len |-> 66, kind |-> "utf8"]
\* A name the converter does not know.
NoCharset == [name |-> "x-unknown", len |-> 9, kind |-> "none"]
\* The empty entry of a list such as "a::b".
EmptyName == [name |-> "", len |-> 0, kind |-> "none"]

(***************************************************************************)
(* The converter: iconv(cd, &ib, &ibl, &ob, &obl) on the bytes s with obl  *)
(* bytes of output room.  It stops at the first unit it cannot convert:    *)
(* E2BIG (no room), EILSEQ (invalid or unrepresentable), EINVAL (input     *)
(* ends inside a multi-byte sequence).  consumed is ib - d afterwards, irr *)
(* the count of non-reversible conversions (iconv's return value).         *)
(***************************************************************************)
Utf8SeqLen(c) ==
  IF c < 128 THEN 1
  ELSE IF c >= 192 /\ c < 224 THEN 2
  ELSE IF c >= 224 /\ c < 240 THEN 3
  ELSE IF c >= 240 /\ c < 248 THEN 4
  ELSE 0

\* The unit at position i (1-based) of s read in charset kind from:
\* [st, k, cp], cp the codepoint's UTF-8 bytes.
ReadUnit(s, i, from) ==
  LET c == s[i] IN
  IF from = "utf8" THEN
    LET k == Utf8SeqLen(c) IN
    IF k = 0 THEN [st |-> "EILSEQ", k |-> 0, cp |-> <<>>]
    ELSE IF \E j \in 1..(k - 1) : i + j <= Len(s) /\ ~CONTINUATION_BYTE(s[i + j])
      THEN [st |-> "EILSEQ", k |-> 0, cp |-> <<>>]
    ELSE IF i + k - 1 > Len(s) THEN [st |-> "EINVAL", k |-> 0, cp |-> <<>>]
    ELSE [st |-> "ok", k |-> k, cp |-> SubSeq(s, i, i + k - 1)]
  ELSE IF from = "latin1" THEN
    [st |-> "ok", k |-> 1,
     cp |-> IF c < 128 THEN <<c>> ELSE <<192 + (c \div 64), 128 + (c % 64)>>]
  ELSE \* "ascii", "translit": 7-bit sets
    IF c < 128 THEN [st |-> "ok", k |-> 1, cp |-> <<c>>]
    ELSE [st |-> "EILSEQ", k |-> 0, cp |-> <<>>]

\* The codepoint cp (UTF-8 bytes) written in charset kind to: [ok, out, irr].
WriteUnit(cp, to) ==
  IF to = "utf8" \/ Len(cp) = 1 THEN [ok |-> TRUE, out |-> cp, irr |-> 0]
  ELSE IF to = "latin1" \/ to = "latin1t" THEN
    IF Len(cp) = 2 /\ cp[1] \in {194, 195}
      THEN [ok |-> TRUE, out |-> <<(cp[1] - 192) * 64 + (cp[2] - 128)>>, irr |-> 0]
    ELSE IF to = "latin1t" THEN [ok |-> TRUE, out |-> <<63>>, irr |-> 1]
    ELSE [ok |-> FALSE, out |-> <<>>, irr |-> 0]
  ELSE IF to = "translit" THEN [ok |-> TRUE, out |-> <<63>>, irr |-> 1]
  ELSE [ok |-> FALSE, out |-> <<>>, irr |-> 0]

\* The unit at position p converted: [st, k, out, irr], r what was read and
\* w what is written for it.
UnitWritten(r, w) ==
  IF ~w.ok THEN [st |-> "EILSEQ", k |-> 0, out |-> <<>>, irr |-> 0]
  ELSE [st |-> "ok", k |-> r.k, out |-> w.out, irr |-> w.irr]

UnitRead(r, to) ==
  IF r.st # "ok" THEN [st |-> r.st, k |-> 0, out |-> <<>>, irr |-> 0]
  ELSE UnitWritten(r, WriteUnit(r.cp, to))

IconvUnit(s, p, from, to) == UnitRead(ReadUnit(s, p, from), to)

\* Position p lies inside a unit that starts before it.  A unit starts on a
\* byte that is no continuation byte, so that unit is read wherever the
\* converter stood before.
Covered(s, p, from, to) ==
  \E q \in Max2(1, p - 3)..(p - 1) :
    IconvUnit(s, q, from, to).st = "ok" /\ q + IconvUnit(s, q, from, to).k > p

\* The units of s by the position they start at.
IconvUnits(s, from, to) ==
  [p \in {x \in 1..Len(s) : ~Covered(s, x, from, to)} |-> IconvUnit(s, p, from, to)]

UnitOut(U) == [p \in DOMAIN U |-> U[p].out]

\* The units the converter cannot take: they do not convert, or the output
\* has no room for them.
IconvHalts(U, obl) ==
  {p \in DOMAIN U : U[p].st # "ok" \/ Len(Cat(UnitOut(U), 1, p)) > obl}

IconvIrr(U, e) == Cardinality({q \in DOMAIN U : q < e /\ U[q].irr = 1})

\* The converter stops at unit e, the first it cannot take.
IconvStopped(U, e) ==
  [st |-> IF U[e].st # "ok" THEN U[e].st ELSE "E2BIG", consumed |-> e - 1,
   out |-> Cat(UnitOut(U), 1, e - 1), irr |-> IconvIrr(U, e)]

IconvHalted(s, U, H) ==
  IF H = {} THEN [st |-> "ok", consumed |-> Len(s), out |-> Cat(UnitOut(U), 1, Len(s)),
                  irr |-> IconvIrr(U, Len(s) + 1)]
  ELSE IconvStopped(U, Lowest(H))

IconvAll(s, obl, U) == IconvHalted(s, U, IconvHalts(U, obl))

Iconv(s, from, to, obl) == IconvAll(s, obl, IconvUnits(s, from.kind, to.kind))

\* mutt_iconv_open(to, from, 0) fails for a name the converter does not know.
IconvOpenFails(from, to) == from.kind = "none" \/ to.kind = "none"

\* convert_string: n = -1 on any failure, else iconv's return value; t the
\* converted bytes.
ConvertResult(r) == IF r.st # "ok" THEN [n |-> -1, t |-> <<>>] ELSE [n |-> r.irr, t |-> r.out]

convert_string(f, from, to) ==
  IF IconvOpenFails(from, to) THEN [n |-> -1, t |-> <<>>]
  ELSE ConvertResult(Iconv(f, from, to, 4 * Len(f) + 1))

(***************************************************************************)
(* mutt_choose_charset: walk the candidate list in order, convert the      *)
(* whole text to each candidate, keep the candidate whose conversion       *)
(* returned the smallest n.  An empty list entry (len = 0) is skipped.     *)
(* Result: [found, tocode, bestn, elen, tried], tried the number of        *)
(* list entries looked at.                                                 *)
(***************************************************************************)
\* The test of line 157 with <= for <.
Better_orEqual(found, n, bestn) == ~found \/ n <= bestn

\* Line 157: the candidate replaces the best one so far.
Better(found, n, bestn) == ~found \/ n < bestn

RECURSIVE ChooseLoop(_, _, _, _, _)
ChooseCandidate(fromcode, charsets, u, p, best, c) ==
  IF c.n = -1 THEN ChooseLoop(fromcode, charsets, u, p + 1, [best EXCEPT !.tried = p])
  ELSE IF Better(best.found, c.n, best.bestn) THEN
    IF c.n = 0
      THEN [found |-> TRUE, tocode |-> charsets[p], bestn |-> c.n, elen |-> Len(c.t),
            tried |-> p]
      ELSE ChooseLoop(fromcode, charsets, u, p + 1,
                      [found |-> TRUE, tocode |-> charsets[p], bestn |-> c.n,
                       elen |-> Len(c.t), tried |-> p])
  ELSE ChooseLoop(fromcode, charsets, u, p + 1, [best EXCEPT !.tried = p])

ChooseLoop(fromcode, charsets, u, p, best) ==
  IF p > Len(charsets) THEN best
  ELSE IF charsets[p].len = 0
    THEN ChooseLoop(fromcode, charsets, u, p + 1, [best EXCEPT !.tried = p])
  ELSE ChooseCandidate(fromcode, charsets, u, p, best,
                       convert_string(u, fromcode, charsets[p]))

mutt_choose_charset(fromcode, charsets, u) ==
  ChooseLoop(fromcode, charsets, u, 1,
             [found |-> FALSE, tocode |-> NoCharset, bestn |-> 0, elen |-> 0, tried |-> 0])

(***************************************************************************)
(* The two encoders, by the number of bytes they write for the data d.     *)
(***************************************************************************)
\* mutt_to_base64 writes 4 characters for each group of 1 to 3 bytes.
b_encoder(d, tocode) == 2 + tocode.len + 3 + 4 * ((Len(d) + 2) \div 3) + 2

QNeedsHex(c) == c >= 127 \/ c < 32 \/ c = 95 \/ c \in MimeSpecials

\* Lines 234-245: one character for a byte, three for a byte written as =XX.
QPayloadLen(d) ==
  Len(d) + 2 * Cardinality({i \in 1..Len(d) : d[i] # 32 /\ QNeedsHex(d[i])})

q_encoder(d, tocode) == 2 + tocode.len + 3 + QPayloadLen(d) + 2

Encoder(enc, d, tocode) == IF enc = "B" THEN b_encoder(d, tocode) ELSE q_encoder(d, tocode)

(***************************************************************************)
(* Assertions.  The file keeps assert() unless it is built with NDEBUG.    *)
(* The functions below compute what an NDEBUG build computes and report in *)
(* afail the first assertion that does not hold on the way ("" when all    *)
(* hold); a build with assertions stops there.                             *)
(***************************************************************************)
FirstFail(a, b) == IF a # "" THEN a ELSE b

(***************************************************************************)
(* try_block: can the span [off, off+dlen) of u become one encoded word?   *)
(* icode says whether fromcode is set (the text is UTF-8 and is converted  *)
(* to tocode) or 0 (the bytes are taken as they are).  prev holds *encoder *)
(* and *wlen before the call; they are written only on acceptance.         *)
(* Result: [nn, enc, wlen, afail], nn = 0 on acceptance.                   *)
(***************************************************************************)
Buf1Size == ENCWORD_LEN_MAX - ENCWORD_LEN_MIN + 1

\* Lines 306-313: the bytes the Q encoding writes as =XX.
QCount(buf) == Cardinality({i \in 1..Len(buf) :
                  buf[i] >= 127 \/ buf[i] < 32 \/ buf[i] = 95
                  \/ (buf[i] # 32 /\ buf[i] \in MimeSpecials)})

\* Lines 315-321: the lengths of the two encodings.
LenB(buf, tocode) == ENCWORD_LEN_MIN - 2 + tocode.len + ((Len(buf) + 2) \div 3) * 4

\* LenQ without the two extra characters of each byte written as =XX.
LenQ_uncounted(buf, tocode) ==
  IF tocode.name = "iso-2022-jp" THEN ENCWORD_LEN_MAX + 1
  ELSE ENCWORD_LEN_MIN - 2 + tocode.len + Len(buf)

LenQ(buf, tocode) ==
  IF tocode.name = "iso-2022-jp" THEN ENCWORD_LEN_MAX + 1
  ELSE ENCWORD_LEN_MIN - 2 + tocode.len + Len(buf) + 2 * QCount(buf)

\* Lines 323-336: the choice between them.
try_block_choice(len_b, len_q, dlen, prev) ==
  IF len_b < len_q /\ len_b <= ENCWORD_LEN_MAX
    THEN [nn |-> 0, enc |-> "B", wlen |-> len_b, afail |-> ""]
  ELSE IF len_q <= ENCWORD_LEN_MAX
    THEN [nn |-> 0, enc |-> "Q", wlen |-> len_q, afail |-> ""]
  ELSE [nn |-> dlen, enc |-> prev.enc, wlen |-> prev.wlen, afail |-> ""]

try_block_fit(buf, dlen, tocode, prev) ==
  try_block_choice(LenB(buf, tocode), LenQ(buf, tocode), dlen, prev)

\* Lines 288-296: r is what iconv did with the span.
try_block_converted(r, dlen, tocode, prev) ==
  IF r.st # "ok"
    THEN [nn |-> IF r.consumed = dlen THEN dlen ELSE r.consumed + 1,
          enc |-> prev.enc, wlen |-> prev.wlen,
          afail |-> IF r.st # "E2BIG" THEN "errno == E2BIG"
                    ELSE IF r.consumed = 0 THEN "ib > d" ELSE ""]
    ELSE try_block_fit(r.out, dlen, tocode, prev)

try_block(u, off, dlen, icode, tocode, prev) ==
  IF icode THEN
    try_block_converted(Iconv(Span(u, off, dlen), Utf8, tocode, Buf1Size - tocode.len),
                        dlen, tocode, prev)
  ELSE IF dlen > Buf1Size - tocode.len
    THEN [nn |-> Buf1Size - tocode.len + 1, enc |-> prev.enc, wlen |-> prev.wlen,
          afail |-> ""]
  ELSE try_block_fit(Span(u, off, dlen), dlen, tocode, prev)

(***************************************************************************)
(* encode_block: the length of the word written for [off, off+dlen).       *)
(* Result: [r, afail].                                                     *)
(***************************************************************************)
encode_converted(r, tocode, enc) ==
  [r |-> Encoder(enc, r.out, tocode),
   afail |-> IF r.st # "ok" THEN "n1 != (size_t)(-1) && n2 != (size_t)(-1)" ELSE ""]

encode_block(u, off, dlen, icode, tocode, enc) ==
  IF icode THEN
    encode_converted(Iconv(Span(u, off, dlen), Utf8, tocode, Buf1Size - tocode.len),
                     tocode, enc)
  ELSE [r |-> Encoder(enc, Span(u, off, dlen), tocode), afail |-> ""]

(***************************************************************************)
(* choose_block: the longest prefix of [off, off+dlen) that fits one       *)
(* encoded word starting in column col.                                    *)
(* Result: [n, enc, wlen, trials, afail]; trials lists every value the     *)
(* trial length n takes, in order.                                         *)
(***************************************************************************)
\* Lines 401-403: a UTF-8 trial length does not end on a continuation byte.
RECURSIVE Utf8BackOff(_, _, _)
Utf8BackOff(u, off, n) ==
  IF n > 1 /\ CONTINUATION_BYTE(At(u, off + n)) THEN Utf8BackOff(u, off, n - 1) ELSE n

\* The test of line 397 without the column.
choose_block_stop_nocol(nn, col, wlen, n) == nn = 0

\* The test of line 397 with the parentheses around the first two operands.
choose_block_stop_grouped(nn, col, wlen, n) ==
  (nn = 0 /\ col + wlen <= ENCWORD_LEN_MAX + 1) \/ n <= 1

\* Line 397: the test that ends the loop.
choose_block_stop(nn, col, wlen, n) ==
  nn = 0 /\ (col + wlen <= ENCWORD_LEN_MAX + 1 \/ n <= 1)

\* Line 399: the next trial length.
choose_block_next(nn, n) == (IF nn # 0 THEN nn ELSE n) - 1

\* Lines 399-403: the trial after c, r what try_block returned for it.  A
\* trial c is [n, trials, af]: the length, the lengths tried so far and the
\* first assertion that did not hold.
choose_block_shrunk(u, off, icode, nn, n) ==
  IF icode THEN Utf8BackOff(u, off, choose_block_next(nn, n)) ELSE choose_block_next(nn, n)

ChooseBlockTrial(c, r, n1, n2) ==
  [n |-> n2, trials |-> Append(c.trials, n2),
   af |-> FirstFail(FirstFail(FirstFail(c.af, r.afail), IF n1 <= 0 THEN "n > 0" ELSE ""),
                    IF n2 <= 0 THEN "d + n > d" ELSE "")]

ChooseBlockShrink(u, off, icode, c, r) ==
  ChooseBlockTrial(c, r, choose_block_next(r.nn, c.n),
                   choose_block_shrunk(u, off, icode, r.nn, c.n))

RECURSIVE ChooseBlockLoop(_, _, _, _, _, _, _)
\* Lines 395-396: try_block on the trial c.
ChooseBlockTry(u, off, col, icode, tocode, prev, c) ==
  ChooseBlockLoop(u, off, col, icode, tocode, c, try_block(u, off, c.n, icode, tocode, prev))

\* Lines 397-403 with r the result of try_block.
ChooseBlockLoop(u, off, col, icode, tocode, c, r) ==
  IF choose_block_stop(r.nn, col, r.wlen, c.n)
    THEN [n |-> c.n, enc |-> r.enc, wlen |-> r.wlen, trials |-> c.trials,
          afail |-> FirstFail(c.af, r.afail)]
  ELSE ChooseBlockTry(u, off, col, icode, tocode, [enc |-> r.enc, wlen |-> r.wlen],
                      ChooseBlockShrink(u, off, icode, c, r))

choose_block(u, off, dlen, col, icode, tocode, prev) ==
  ChooseBlockTry(u, off, col, icode, tocode, prev,
                 [n |-> dlen, trials |-> <<dlen>>,
                  af |-> IF dlen <= 0 THEN "d + n > d" ELSE ""])

(***************************************************************************)
(* rfc2047_encode, lines 452-534: the region [t0, t1) to encode.           *)
(***************************************************************************)
\* The test of line 456 without the look at the byte before.
MustEncode_anywhere(u, i) == HighBit(At(u, i)) \/ (At(u, i) = 61 /\ At(u, i + 1) = 63)

\* Line 456: a byte that must be encoded.
MustEncode(u, i) ==
  HighBit(At(u, i))
  \/ (At(u, i) = 61 /\ At(u, i + 1) = 63 /\ (i = 0 \/ HSPACE(At(u, i - 1))))

\* Line 462: a special character that need not be encoded for itself.
IsSpecial(u, i, specials) ==
  ~MustEncode(u, i) /\ specials /\ At(u, i) # 0 /\ At(u, i) \in RFC822Specials

\* Lines 470-474 with T and S the offsets found by the scan.
RegionOf(T, S) ==
  IF T = {} THEN [found |-> FALSE, t0 |-> 0, t1 |-> 0]
  ELSE [found |-> TRUE,
        t0 |-> IF S # {} /\ Lowest(S) < Lowest(T) THEN Lowest(S) ELSE Lowest(T),
        t1 |-> IF S # {} /\ Highest(S) > Highest(T) THEN Highest(S) ELSE Highest(T)]

\* Lines 453-474: [found, t0, t1] with t1 the offset of the last byte found.
ScanRegion(u, specials) ==
  RegionOf({i \in 0..(Len(u) - 1) : MustEncode(u, i)},
           {i \in 0..(Len(u) - 1) : IsSpecial(u, i, specials)})

\* Lines 515-516: while (t < u + ulen && CONTINUATION_BYTE(*t)) t++;
SkipContinuation(u, t) ==
  IF t >= Len(u) THEN t
  ELSE Lowest({x \in t..Len(u) : x = Len(u) \/ ~CONTINUATION_BYTE(At(u, x))})

\* Lines 529-530: while (CONTINUATION_BYTE(*t)) t--;
BackContinuation(u, t) ==
  IF t <= 0 THEN t
  ELSE Highest({x \in 0..t : x = 0 \/ ~CONTINUATION_BYTE(At(u, x))})

\* Lines 509-512: the next t0 at or before p that has white space before
\* it, 0 (u itself) when there is none.
SpaceBefore(u, p) == IF p <= 0 THEN p ELSE Highest({x \in 0..p : x = 0 \/ HSPACE(At(u, x - 1))})

\* Lines 508-520, t0 standing behind white space.  Result: [v, prev, afail].
RECURSIVE AdjustT0At(_, _, _, _, _, _, _)
AdjustT0Tried(u, t0, col, icode, tocode, af, r) ==
  IF r.nn = 0 /\ col + t0 + r.wlen <= ENCWORD_LEN_MAX + 1
    THEN [v |-> t0, prev |-> [enc |-> r.enc, wlen |-> r.wlen], afail |-> FirstFail(af, r.afail)]
  ELSE AdjustT0At(u, SpaceBefore(u, t0 - 1), col, icode, tocode,
                  [enc |-> r.enc, wlen |-> r.wlen], FirstFail(af, r.afail))

AdjustT0At(u, t0, col, icode, tocode, prev, af) ==
  IF t0 <= 0 THEN [v |-> t0, prev |-> prev, afail |-> af]
  ELSE AdjustT0Tried(u, t0, col, icode, tocode, af,
         try_block(u, t0, (IF icode THEN SkipContinuation(u, t0 + 1) ELSE t0 + 1) - t0,
                   icode, tocode, prev))

AdjustT0(u, t0, col, icode, tocode, prev, af) ==
  AdjustT0At(u, SpaceBefore(u, t0), col, icode, tocode, prev, af)

\* Lines 523-526: the next t1 at or after p that stands on white space, the
\* end of the text when there is none.
SpaceFrom(u, p) ==
  IF p >= Len(u) THEN p ELSE Lowest({x \in p..Len(u) : x = Len(u) \/ HSPACE(At(u, x))})

\* Lines 522-534, t1 standing on white space.  Result: [v, prev, afail].
RECURSIVE AdjustT1At(_, _, _, _, _, _)
AdjustT1Tried(u, t1, icode, tocode, af, r) ==
  IF r.nn = 0 /\ 1 + r.wlen + (Len(u) - t1) <= ENCWORD_LEN_MAX + 1
    THEN [v |-> t1, prev |-> [enc |-> r.enc, wlen |-> r.wlen], afail |-> FirstFail(af, r.afail)]
  ELSE AdjustT1At(u, SpaceFrom(u, t1 + 1), icode, tocode, [enc |-> r.enc, wlen |-> r.wlen],
                  FirstFail(af, r.afail))

AdjustT1From(u, t1, icode, tocode, prev, af, t) ==
  AdjustT1Tried(u, t1, icode, tocode, af, try_block(u, t, t1 - t, icode, tocode, prev))

AdjustT1At(u, t1, icode, tocode, prev, af) ==
  IF t1 >= Len(u) THEN [v |-> t1, prev |-> prev, afail |-> af]
  ELSE AdjustT1From(u, t1, icode, tocode, prev, af,
                    IF icode THEN BackContinuation(u, t1 - 1) ELSE t1 - 1)

AdjustT1(u, t1, icode, tocode, prev, af) ==
  AdjustT1At(u, SpaceFrom(u, t1), icode, tocode, prev, af)

\* Lines 569-570: the next word is added to the region.
WidenT1(u, t1) == SpaceFrom(u, t1)

\* Lines 557-559: while (CONTINUATION_BYTE(t[n])) n--;
BackOffN(u, t, n) ==
  IF n < 0 THEN n
  ELSE Highest({x \in -1..n : x = -1 \/ ~CONTINUATION_BYTE(At(u, t + x))})

\* A sum of size_t values, one of which may be a negative difference of
\* pointers: the sum wraps, which brings a sum that is not negative back to
\* itself and makes a negative one huge.
SizeSum(x) == IF x >= 0 THEN x ELSE x + 2147483647

(***************************************************************************)
(* State                                                                   *)
(***************************************************************************)
VARIABLES
  pc,       \* where the call stands
  arg,      \* the call's arguments: [d, col, fromcode, charsets, specials]
  u,        \* the text worked on (UTF-8, or the raw input)
  icode,    \* TRUE while icode = "utf-8", FALSE once icode = 0
  ret,      \* the status returned
  tocode,   \* the target character set
  t0, t1,   \* the region to encode
  t,        \* the next byte to encode
  col,      \* the output column
  encw,     \* [enc, wlen]: *encoder and wlen
  buf,      \* the output: a sequence of pieces [k, off, n, len, col]
  trials,   \* the choose_block calls of the last turn of the loop
  ndebug,   \* TRUE once the run has passed an assertion that does not hold
  failed,   \* the assertion that stopped the run ("" when none did)
  pd,       \* rfc2047_decode: the text *pd
  options,  \* rfc2047_decode: [lws, assumed], OPT_IGNORE_LINEAR_WHITE_SPACE and AssumedCharset
  hist,     \* rfc2047_decode: the texts *pd held before each call
  choice,   \* mutt_choose_charset: the call [fromcode, charsets, u]
  chosen,   \* mutt_choose_charset: what it returned
  fpc,      \* find_encoded_word: where the call stands
  fs,       \* find_encoded_word: [text, off], the argument s is text + off
  fq,       \* find_encoded_word: q, an offset of the text
  fp,       \* find_encoded_word: p, an offset of the text (-1: NULL)
  fx,       \* find_encoded_word: *x, an offset of the text (-1: not set)
  flast,    \* find_encoded_word: the "=?" that failed in the turn before (-1: none)
  dpc,      \* rfc2047_decode by turns: where the call stands
  ds,       \* rfc2047_decode by turns: s, an offset of the text *pd
  dd,       \* rfc2047_decode by turns: the output written so far, d0 up to d
  droom,    \* rfc2047_decode by turns: dlen, the room left
  dfound,   \* rfc2047_decode by turns: found_encoded
  gap       \* rfc2047_decode by turns: the gap of the last turn

encvars == <<pc, arg, u, icode, ret, tocode, t0, t1, t, col, encw, buf, trials, ndebug, failed>>
decvars == <<pd, options, hist>>
csvars == <<choice, chosen>>
findvars == <<fpc, fs, fq, fp, fx, flast>>
turnvars == <<dpc, ds, dd, droom, dfound, gap>>
scanvars == <<findvars, turnvars>>
vars == <<encvars, decvars, csvars, scanvars>>

Raw(off, n) == [k |-> "raw", off |-> off, n |-> n, len |-> n, col |-> 0]
Word(off, n, len, c) == [k |-> "word", off |-> off, n |-> n, len |-> len, col |-> c]
Fold == [k |-> "fold", off |-> 0, n |-> 0, len |-> 2, col |-> 0]

Words(b) == SelectSeq(b, LAMBDA x : x.k = "word")

NoEncoder == [enc |-> "none", wlen |-> 0]

\* One choose_block call, as the step records it.
Call(cb) == [tr |-> cb.trials, n |-> cb.n, afail |-> cb.afail]

(***************************************************************************)
(* Inputs                                                                  *)
(***************************************************************************)
\* space, 'a', "=?", ',', U+00E9 and U+20AC in UTF-8
Atoms == {<<32>>, <<97>>, <<61, 63>>, <<44>>, <<195, 169>>, <<226, 130, 172>>}

RECURSIVE TextsOf(_, _)
TextsOf(A, n) ==
  IF n = 0 THEN {<<>>}
  ELSE TextsOf(A, n - 1) \cup {x \o a : x \in TextsOf(A, n - 1), a \in A}

\* fromcode (Charset) and charsets (SendCharset)
Configs == {
  <<Utf8, <<Utf8>>>>, <<Utf8, <<Latin1, Utf8>>>>, <<Utf8, <<UsAscii>>>>,
  <<Utf8, <<LongName64>>>>, <<Utf8, <<LongName66>>>>, <<LongName66, <<UsAscii>>>>,
  <<Latin1, <<Utf8>>>>, <<UsAscii, <<Utf8>>>>, <<Iso2022Jp, <<Utf8>>>>,
  <<NoCharset, <<Utf8>>>> }

Cols == {0, 60, 62, 66}

\* The locals of rfc2047_encode before its first statement.
EncLocals ==
  /\ u = <<>> /\ icode = FALSE /\ ret = 0 /\ tocode = NoCharset
  /\ t0 = 0 /\ t1 = 0 /\ t = 0 /\ col = 0
  /\ encw = NoEncoder /\ buf = <<>> /\ trials = <<>>
  /\ ndebug = FALSE /\ failed = ""

\* No call of the function is under way.
EncIdle ==
  /\ pc = "idle"
  /\ arg = [d |-> <<>>, col |-> 0, fromcode |-> Utf8, charsets |-> <<>>, specials |-> FALSE]
  /\ EncLocals

DecIdle == pd = <<>> /\ options = [lws |-> FALSE, assumed |-> <<>>] /\ hist = <<>>

NoChoice == [found |-> FALSE, tocode |-> NoCharset, bestn |-> 0, elen |-> 0, tried |-> 0]

CsIdle == choice = [fromcode |-> Utf8, charsets |-> <<>>, u |-> <<>>] /\ chosen = NoChoice

\* The locals of find_encoded_word before its first statement.
FindLocals == fq = 0 /\ fp = -1 /\ fx = -1 /\ flast = -1

FindIdle == fpc = "idle" /\ fs = [text |-> <<>>, off |-> 0] /\ FindLocals

NoGap == [n |-> 0, text |-> <<>>, found |-> FALSE, room |-> 0, out |-> <<>>]

\* The locals of rfc2047_decode before its first statement.
TurnLocals == ds = 0 /\ dd = <<>> /\ droom = 0 /\ dfound = FALSE /\ gap = NoGap

TurnIdle == dpc = "idle" /\ TurnLocals

ScanIdle == FindIdle /\ TurnIdle

Init ==
  /\ pc = "encode"
  /\ \E d \in TextsOf(Atoms, MaxAtoms), c \in Cols, cf \in Configs, sp \in BOOLEAN :
       arg = [d |-> d, col |-> c, fromcode |-> cf[1], charsets |-> cf[2], specials |-> sp]
  /\ EncLocals
  /\ DecIdle
  /\ CsIdle
  /\ ScanIdle

(***************************************************************************)
(* rfc2047_encode, lines 442-546: conversion to UTF-8, the scan, the       *)
(* target character set and the region; or the return at line 481.         *)
(***************************************************************************)
mutt_is_us_ascii(cs) == cs.name = "us-ascii"

\* Lines 443-450: the text and whether convert_string returned 0.
SourceOf(a, c) == IF c.n = 0 THEN [ok |-> TRUE, u |-> c.t] ELSE [ok |-> FALSE, u |-> a.d]

SourceText(a) == SourceOf(a, convert_string(a.d, a.fromcode, Utf8))

\* The return of line 481 with the status 0 whatever ret holds.
NoRegionStatus_zero(ok) == 0

\* Lines 476-482: the status returned when nothing needs encoding.
NoRegionStatus(ok) == IF ok THEN 0 ELSE 1

\* Lines 484-499: [icode, tocode, ret], ch the result of mutt_choose_charset.
TargetOf(a, ok, ch) ==
  [icode |-> ok /\ ch.found,
   tocode |-> IF ok /\ ch.found THEN ch.tocode
              ELSE IF mutt_is_us_ascii(a.fromcode) THEN Unknown8bit ELSE a.fromcode,
   ret |-> IF ~ok THEN 1 ELSE IF ~ch.found THEN 2 ELSE 0]

TargetCharset(a, ok, uu) ==
  IF ok THEN TargetOf(a, ok, mutt_choose_charset(Utf8, a.charsets, uu))
  ELSE TargetOf(a, ok, [found |-> FALSE])

\* Lines 501-534: [t0, t1, prev, afail].
RegionEnd(uu, sc, tg, a0) ==
  [t0 |-> a0.v, a1 |-> AdjustT1(uu, sc.t1, tg.icode, tg.tocode, a0.prev, a0.afail)]

Region(a, uu, sc, tg) ==
  RegionEnd(uu, sc, tg,
            AdjustT0(uu, Min2(sc.t0, Max2((ENCWORD_LEN_MAX + 1) - a.col - ENCWORD_LEN_MIN, 0)),
                     a.col, tg.icode, tg.tocode, NoEncoder, ""))

\* A run stops at an assertion that does not hold, unless it is an NDEBUG build.
Stops(afail) == IF afail # "" /\ ~ndebug THEN {FALSE, TRUE} ELSE {FALSE}

PrepareRegion(rg) ==
  \E stop \in Stops(rg.a1.afail) :
    IF stop THEN
      /\ pc' = "abort"
      /\ failed' = rg.a1.afail
      /\ UNCHANGED <<t0, t1, t, col, encw, buf, ndebug>>
    ELSE
      /\ pc' = "loop"
      /\ encw' = rg.a1.prev
      /\ t0' = rg.t0
      /\ t1' = rg.a1.v
      /\ t' = rg.t0
      /\ col' = arg.col + rg.t0
      /\ buf' = <<Raw(0, rg.t0)>>
      /\ ndebug' = (ndebug \/ rg.a1.afail # "")
      /\ UNCHANGED failed

PrepareTarget(src, sc, tg) ==
  /\ ret' = tg.ret
  /\ icode' = tg.icode
  /\ tocode' = tg.tocode
  /\ PrepareRegion(Region(arg, src.u, sc, tg))

PrepareScanned(src, sc) ==
  /\ u' = src.u
  /\ IF ~sc.found THEN
       /\ ret' = NoRegionStatus(src.ok)
       /\ icode' = src.ok
       /\ buf' = <<Raw(0, Len(src.u))>>
       /\ pc' = "done"
       /\ UNCHANGED <<tocode, t0, t1, t, col, encw, ndebug, failed>>
     ELSE PrepareTarget(src, sc, TargetCharset(arg, src.ok, src.u))

PrepareSource(src) == PrepareScanned(src, ScanRegion(src.u, arg.specials))

EncPrepare ==
  /\ pc = "encode"
  /\ PrepareSource(SourceText(arg))
  /\ UNCHANGED <<arg, trials, decvars, csvars, scanvars>>

(***************************************************************************)
(* rfc2047_encode, lines 547-594: one turn of the loop.  The outcome of a  *)
(* turn is [pc, t1, t, col, encw, buf, trials, afail].                     *)
(***************************************************************************)
\* Line 554: the last word and the suffix fit the line.
SuffixFits(c, wlen, ulen, tt1) == SizeSum(c + wlen + (ulen - tt1)) <= ENCWORD_LEN_MAX + 1

\* Lines 576-593: the word for [t, t+cb.n) and a fold point are written;
\* r is the result of encode_block.
Emitted(cb, calls, r) ==
  [pc |-> "loop", t1 |-> t1, t |-> t + cb.n, col |-> 1,
   encw |-> [enc |-> cb.enc, wlen |-> cb.wlen],
   buf |-> buf \o <<Word(t, cb.n, r.r, col), Fold>>,
   trials |-> calls,
   afail |-> FirstFail(cb.afail,
                       FirstFail(r.afail, IF r.r # cb.wlen THEN "r == wlen" ELSE ""))]

EmitWord(cb, calls) == Emitted(cb, calls, encode_block(u, t, cb.n, icode, tocode, cb.enc))

\* The turn ends without a word written.
NoWord(p, tt1, cb, af) ==
  [pc |-> p, t1 |-> tt1, t |-> t, col |-> col, encw |-> [enc |-> cb.enc, wlen |-> cb.wlen],
   buf |-> buf, trials |-> <<Call(cb)>>, afail |-> af]

\* Line 573: the second call, for the region less its last character.
SecondChoice(cb, cb2) ==
  EmitWord([cb2 EXCEPT !.afail = FirstFail(cb.afail, cb2.afail)], <<Call(cb), Call(cb2)>>)

\* Lines 556-574 with n1 the value of n at line 560.
Shortened(cb, n1) ==
  IF n1 < 0 THEN
    \* n has wrapped: the span handed to choose_block leaves the buffer
    NoWord("crash", t1, cb, FirstFail(cb.afail, "t + n >= t"))
  ELSE IF n1 = 0 THEN
    NoWord("loop", WidenT1(u, t1 + 1), cb,
           FirstFail(cb.afail, IF t1 < Len(u) THEN "" ELSE "t1 < u + ulen"))
  ELSE SecondChoice(cb, choose_block(u, t, n1, col, icode, tocode,
                                     [enc |-> cb.enc, wlen |-> cb.wlen]))

\* Lines 551-574 with cb the result of the call at line 550.
Chosen(cb) ==
  IF cb.n = t1 - t THEN
    IF SuffixFits(col, cb.wlen, Len(u), t1) THEN NoWord("finish", t1, cb, cb.afail)
    ELSE Shortened(cb, IF icode THEN BackOffN(u, t, t1 - t - 1) ELSE t1 - t - 1)
  ELSE EmitWord(cb, <<Call(cb)>>)

StepOutcome == Chosen(choose_block(u, t, t1 - t, col, icode, tocode, encw))

TakeStep(o) ==
  \E stop \in Stops(o.afail) :
    IF stop THEN
      /\ pc' = "abort"
      /\ failed' = o.afail
      /\ trials' = o.trials
      /\ UNCHANGED <<t1, t, col, encw, buf, ndebug>>
    ELSE
      /\ pc' = o.pc
      /\ t1' = o.t1
      /\ t' = o.t
      /\ col' = o.col
      /\ encw' = o.encw
      /\ buf' = o.buf
      /\ trials' = o.trials
      /\ ndebug' = (ndebug \/ o.afail # "")
      /\ UNCHANGED failed

EncStep ==
  /\ pc = "loop"
  /\ Len(Words(buf)) < MaxWords
  /\ TakeStep(StepOutcome)
  /\ UNCHANGED <<arg, u, icode, ret, tocode, t0, decvars, csvars, scanvars>>

(***************************************************************************)
(* rfc2047_encode, lines 596-611: the last word and the suffix.            *)
(***************************************************************************)
Finished(r, af) ==
  \E stop \in Stops(af) :
    IF stop THEN
      /\ pc' = "abort"
      /\ failed' = af
      /\ UNCHANGED <<buf, ndebug>>
    ELSE
      /\ ndebug' = (ndebug \/ af # "")
      /\ UNCHANGED failed
      /\ IF Len(u) - t1 < 0 THEN
           \* memcpy(buf + bufpos, t1, u + ulen - t1) with a length below 0
           /\ pc' = "crash"
           /\ buf' = Append(buf, Word(t, t1 - t, r.r, col))
         ELSE
           /\ pc' = "done"
           /\ buf' = buf \o <<Word(t, t1 - t, r.r, col), Raw(t1, Len(u) - t1)>>

LastWord(r) == Finished(r, FirstFail(r.afail, IF r.r # encw.wlen THEN "r == wlen" ELSE ""))

EncFinish ==
  /\ pc = "finish"
  /\ LastWord(encode_block(u, t, t1 - t, icode, tocode, encw.enc))
  /\ UNCHANGED <<arg, u, icode, ret, tocode, t0, t1, t, col, encw, trials, decvars, csvars, scanvars>>

Next == EncPrepare \/ EncStep \/ EncFinish

Spec == Init /\ [][Next]_vars

(***************************************************************************)
(* Properties of rfc2047_encode                                            *)
(***************************************************************************)
\* The encoded words written so far.
IsWord(i) == i \in 1..Len(buf) /\ buf[i].k = "word"

\* C1: every encoded word written, in the loop or as the last word, is at
\* most ENCWORD_LEN_MAX characters long.
C1_WordLength == \A i \in 1..Len(buf) : IsWord(i) => buf[i].len <= ENCWORD_LEN_MAX

\* A finished call that wrote a word of exactly ENCWORD_LEN_MAX characters in
\* the loop and another one as its last word.
C1_Witness ==
  /\ pc = "done" /\ ~ndebug
  /\ \E i, j \in 1..Len(buf) :
       /\ i < j /\ IsWord(i) /\ IsWord(j)
       /\ buf[i].len = ENCWORD_LEN_MAX /\ buf[j].len = ENCWORD_LEN_MAX

\* C2 as stated: every word written starts in a column that leaves it room,
\* col + length <= ENCWORD_LEN_MAX + 1, whatever the length of its span.
C2_ColumnBound ==
  \A i \in 1..Len(buf) : IsWord(i) => buf[i].col + buf[i].len <= ENCWORD_LEN_MAX + 1

\* C2 amended: every word written for a span of more than one byte starts in
\* a column that leaves it room; a span that has shrunk to one byte is
\* written wherever the column stands.
C2_ColumnBoundBeyondOneByte ==
  \A i \in 1..Len(buf) :
    IsWord(i) /\ buf[i].n > 1 => buf[i].col + buf[i].len <= ENCWORD_LEN_MAX + 1

\* choose_block has shortened a span for the column's sake and the word
\* written for the two bytes or more left of it ends in the last column.
C2_Witness ==
  /\ pc = "loop" /\ ~ndebug
  /\ Len(trials) = 1 /\ Len(trials[1].tr) >= 2 /\ trials[1].n >= 2
  /\ \E i \in 1..Len(buf) :
       /\ IsWord(i) /\ buf[i].n = trials[1].n /\ buf[i].off + buf[i].n = t
       /\ buf[i].col + buf[i].len = ENCWORD_LEN_MAX + 1

\* No word starts or ends inside a multi-byte codepoint of u.
WordsKeepCodepoints ==
  \A i \in 1..Len(buf) :
    IsWord(i) => /\ ~CONTINUATION_BYTE(At(u, buf[i].off))
                 /\ ~CONTINUATION_BYTE(At(u, buf[i].off + buf[i].n))

\* C3 as stated: when the conversion of the input to UTF-8 succeeded (the
\* status is not 1), no word starts or ends inside a multi-byte codepoint.
C3_NoSplit == (pc # "encode" /\ ret # 1) => WordsKeepCodepoints

\* C3 amended: while icode is set, which takes the conversion to UTF-8 to
\* succeed and mutt_choose_charset to find a target, no word starts or ends
\* inside a multi-byte codepoint.
C3_NoSplitWhileIcode == icode => WordsKeepCodepoints

\* A finished call that converts, with a boundary between two words that
\* has a multi-byte codepoint on either side.
C3_Witness ==
  /\ pc = "done" /\ icode /\ ~ndebug
  /\ \E i \in 1..Len(buf) :
       /\ IsWord(i) /\ buf[i].off + buf[i].n < t1
       /\ CONTINUATION_BYTE(At(u, buf[i].off + buf[i].n - 1))
       /\ HighBit(At(u, buf[i].off + buf[i].n))

\* The scan of lines 453-474 finds nothing to encode in the text worked on.
NothingToEncode == pc = "done" /\ ~ScanRegion(u, arg.specials).found

\* C8 as stated: when the scan finds nothing to encode the text is returned
\* as it is with status 0, also when the conversion to UTF-8 failed.
C8_StatusOk == NothingToEncode => ret = 0 /\ buf = <<Raw(0, Len(arg.d))>> /\ u = arg.d

\* C8 amended: when the scan finds nothing to encode the text is returned as
\* it is, with status 0 when convert_string returned 0 and with status 1
\* when it did not.
C8_StatusOfConversion ==
  NothingToEncode =>
    /\ buf = <<Raw(0, Len(arg.d))>> /\ u = arg.d
    /\ ret = (IF convert_string(arg.d, arg.fromcode, Utf8).n = 0 THEN 0 ELSE 1)

\* Nothing to encode in a text of some length whose conversion failed.
C8_Witness == NothingToEncode /\ ret = 1 /\ Len(arg.d) > 0

\* The pieces of a finished output: the prefix, words with one fold point
\* between two of them, the suffix; the words' spans are not empty and lead
\* from t0 to t1 without a gap.
SpansCover ==
  /\ Len(buf) >= 3 /\ Len(buf) % 2 = 1
  /\ buf[1] = Raw(0, t0)
  /\ buf[Len(buf)] = Raw(t1, Len(u) - t1)
  /\ \A i \in 2..(Len(buf) - 1) : IF i % 2 = 0 THEN IsWord(i) ELSE buf[i] = Fold
  /\ buf[2].off = t0
  /\ buf[Len(buf) - 1].off + buf[Len(buf) - 1].n = t1
  /\ \A i \in 2..(Len(buf) - 1) :
       IsWord(i) => /\ buf[i].n > 0
                    /\ (i + 2 < Len(buf) => buf[i + 2].off = buf[i].off + buf[i].n)

\* C9: a call on a text that needs encoding comes to its end, and the spans
\* of its words are not empty, follow one another and cover [t0, t1) between
\* the prefix and the suffix, with one fold point between two words.
C9_SpansCover ==
  /\ pc \notin {"abort", "crash"}
  /\ (pc = "done" /\ ~NothingToEncode => SpansCover)

\* C10: in every call of choose_block the trial lengths handed to try_block
\* fall strictly, none of them is 0, no assertion stops the call and the
\* length returned is greater than 0.
C10_TrialLengths ==
  \A i \in 1..Len(trials) :
    /\ trials[i].afail = ""
    /\ trials[i].n > 0
    /\ \A j \in 1..Len(trials[i].tr) :
         /\ trials[i].tr[j] > 0
         /\ (j > 1 => trials[i].tr[j] < trials[i].tr[j - 1])

(***************************************************************************)
(* mutt_choose_charset on its own: a text, the character set it is in and  *)
(* a list of candidates.                                                   *)
(***************************************************************************)
\* Largest number of entries of a candidate list.
MaxList == 3
\* Largest number of characters of a text to choose a character set for.
MaxChars == 2

Candidates == {Utf8, Latin1, Translit, Latin1Translit, EmptyName}

RECURSIVE ListsOf(_, _)
ListsOf(C, n) ==
  IF n = 1 THEN {<<c>> : c \in C}
  ELSE ListsOf(C, n - 1) \cup {Append(l, c) : l \in ListsOf(C, n - 1), c \in C}

\* 'a', U+00E9 and U+20AC in UTF-8
ChoiceAtoms == {<<97>>, <<195, 169>>, <<226, 130, 172>>}

InitCharset ==
  /\ EncIdle
  /\ DecIdle
  /\ \E f \in {Utf8, Latin1}, l \in ListsOf(Candidates, MaxList),
        x \in TextsOf(ChoiceAtoms, MaxChars) :
       choice = [fromcode |-> f, charsets |-> l, u |-> x]
  /\ chosen = NoChoice
  /\ ScanIdle

ChooseCharset ==
  /\ chosen.tried = 0
  /\ chosen' = mutt_choose_charset(choice.fromcode, choice.charsets, choice.u)
  /\ UNCHANGED <<choice, encvars, decvars, scanvars>>

NextCharset == ChooseCharset

SpecCharset == InitCharset /\ [][NextCharset]_vars

\* The conversion of the text to the p-th candidate, and whether it counts.
Conv(p) == convert_string(choice.u, choice.fromcode, choice.charsets[p])
Usable(p) == p \in 1..Len(choice.charsets) /\ choice.charsets[p].len > 0 /\ Conv(p).n # -1
Returned == chosen.tried > 0

\* C6 as stated: the candidate returned is the earliest of those whose
\* conversion succeeds with the shortest converted text, and none is
\* returned exactly when no candidate converts.
C6_ShortestLength ==
  Returned =>
    /\ chosen.found <=> \E p \in 1..Len(choice.charsets) : Usable(p)
    /\ chosen.found =>
         \E k \in 1..Len(choice.charsets) :
           /\ Usable(k) /\ chosen.tocode = choice.charsets[k]
           /\ \A j \in 1..Len(choice.charsets) :
                Usable(j) => /\ Len(Conv(k).t) <= Len(Conv(j).t)
                             /\ (j < k => Len(Conv(k).t) < Len(Conv(j).t))

\* C6 amended: the candidate returned is the earliest of those whose
\* conversion succeeds with the smallest return value of convert_string (the
\* converter's count of irreversible conversions); the length reported is
\* that of its converted text; the search ends at the first candidate with
\* the value 0 and else at the end of the list; none is returned exactly
\* when no candidate converts.
C6_FewestIrreversible ==
  Returned =>
    /\ chosen.found <=> \E p \in 1..Len(choice.charsets) : Usable(p)
    /\ ~chosen.found => chosen.tried = Len(choice.charsets)
    /\ chosen.found =>
         \E k \in 1..Len(choice.charsets) :
           /\ Usable(k) /\ chosen.tocode = choice.charsets[k]
           /\ chosen.bestn = Conv(k).n /\ chosen.elen = Len(Conv(k).t)
           /\ \A j \in 1..Len(choice.charsets) :
                Usable(j) => /\ Conv(k).n <= Conv(j).n
                             /\ (j < k => Conv(k).n < Conv(j).n)
           /\ chosen.tried = (IF Conv(k).n = 0 THEN k ELSE Len(choice.charsets))

\* The candidate returned stands in the list after one that converts with
\* more loss and to a shorter text.
C6_Witness ==
  /\ Returned /\ chosen.found
  /\ \E j, k \in 1..Len(choice.charsets) :
       /\ j < k /\ Usable(j) /\ Usable(k)
       /\ chosen.tocode = choice.charsets[k] /\ Conv(j).n > chosen.bestn
       /\ Len(Conv(j).t) < chosen.elen

(***************************************************************************)
(* Decoding.  Charset is the display character set, UTF-8 here.            *)
(***************************************************************************)
Charset == Utf8

\* The first offset of X, -1 when X is empty.
First(X) == IF X = {} THEN -1 ELSE Lowest(X)

\* strchr(s + i, c) for c # 0: the offset of the first c at or after i, -1
\* when there is none.
NextChar(s, i, c) == First({x \in i..(Len(s) - 1) : At(s, x) = c})

\* strstr(s + q, "=?")
StrStrMark(s, q) == First({x \in q..(Len(s) - 1) : At(s, x) = 61 /\ At(s, x + 1) = 63})

\* "()<>@,;:\"/[]?.="
TokenSpecials == {40, 41, 60, 62, 64, 44, 59, 58, 34, 47, 91, 93, 63, 46, 61}

\* Line 762: the characters of the charset part.
SkipToken(s, q) ==
  Lowest({x \in q..Max2(q, Len(s)) :
            ~(At(s, x) > 32 /\ At(s, x) < 127 /\ At(s, x) \notin TokenSpecials)})

\* Line 767: the characters of the encoded text.
SkipText(s, q) ==
  Lowest({x \in q..Max2(q, Len(s)) :
            ~(At(s, x) >= 32 /\ At(s, x) < 127 /\ (At(s, x) # 63 \/ At(s, x + 1) # 61))})

(***************************************************************************)
(* find_encoded_word: the first encoded word of s at or after offset q.    *)
(* Result: [found, p, x, marks]: the word is [p, x); marks lists the       *)
(* offsets of the "=?" looked at, in order.                                *)
(***************************************************************************)
RECURSIVE FindFrom(_, _, _)
\* Lines 769-776: q stands behind the encoded text.
FindText(s, p, q, marks) ==
  IF At(s, q) # 63 \/ At(s, q + 1) # 61 THEN FindFrom(s, q - 1, marks)
  ELSE [found |-> TRUE, p |-> p, x |-> q + 2, marks |-> marks]

\* Lines 764-767: q stands behind the charset part.
FindToken(s, p, q, marks) ==
  IF At(s, q) # 63 \/ At(s, q + 1) = 0 \/ At(s, q + 1) \notin {66, 98, 81, 113}
     \/ At(s, q + 2) # 63
    THEN FindFrom(s, q, marks)
  ELSE FindText(s, p, SkipText(s, q + 3), marks)

\* Lines 760-762: p is what strstr returned.
FindMark(s, p, marks) ==
  IF p < 0 THEN [found |-> FALSE, p |-> 0, x |-> 0, marks |-> marks]
  ELSE FindToken(s, p, SkipToken(s, p + 2), Append(marks, p))

FindFrom(s, q, marks) == FindMark(s, StrStrMark(s, q), marks)

find_encoded_word(s, q) == FindFrom(s, q, <<>>)

(***************************************************************************)
(* The transport decodings of rfc2047_decode_word, lines 691-729.          *)
(***************************************************************************)
\* hexval(c): the value of a hexadecimal digit, -1 for any other character.
hexval(c) ==
  IF c >= 48 /\ c <= 57 THEN c - 48
  ELSE IF c >= 65 /\ c <= 70 THEN c - 55
  ELSE IF c >= 97 /\ c <= 102 THEN c - 87
  ELSE -1

\* base64val(c): the value of a character of the Base64 alphabet, else -1.
base64val(c) ==
  IF c >= 65 /\ c <= 90 THEN c - 65
  ELSE IF c >= 97 /\ c <= 122 THEN c - 71
  ELSE IF c >= 48 /\ c <= 57 THEN c + 4
  ELSE IF c = 43 THEN 62
  ELSE IF c = 47 THEN 63
  ELSE -1

\* Line 697: "=XX" at offset x.
QEscape(s, x) ==
  /\ At(s, x) = 61
  /\ At(s, x + 1) < 128 /\ hexval(At(s, x + 1)) # -1
  /\ At(s, x + 2) < 128 /\ hexval(At(s, x + 2)) # -1

\* Lines 695-704: the byte written for the characters at x.
QUnit(s, x) ==
  IF At(s, x) = 95 THEN <<32>>
  ELSE IF QEscape(s, x) THEN <<hexval(At(s, x + 1)) * 16 + hexval(At(s, x + 2))>>
  ELSE <<At(s, x)>>

\* Lines 693-706: the bytes of [pp, pp1) decoded from Q.  The loop stands on
\* every offset but the two behind the '=' of an "=XX".
QDecode(s, pp, pp1) ==
  Cat([x \in {y \in pp..(pp1 - 1) : /\ ~(y - 1 >= pp /\ QEscape(s, y - 1))
                                     /\ ~(y - 2 >= pp /\ QEscape(s, y - 2))}
         |-> QUnit(s, x)], pp, pp1 - 1)

Pow2(k) == IF k = 0 THEN 1 ELSE IF k = 2 THEN 4 ELSE IF k = 4 THEN 16 ELSE IF k = 6 THEN 64 ELSE 256

\* Lines 710-728: the bytes of [pp, pp1) decoded from Base64; b holds the
\* low eight bits of the C variable b.
RECURSIVE BDecode(_, _, _, _, _)
BDecode(s, pp, pp1, b, k) ==
  IF pp >= pp1 \/ At(s, pp) = 61 THEN <<>>
  ELSE IF At(s, pp) >= 128 \/ base64val(At(s, pp)) = -1 THEN BDecode(s, pp + 1, pp1, b, k)
  ELSE IF k + 6 >= 8
    THEN <<(b + base64val(At(s, pp)) \div Pow2(k - 2)) % 256>>
         \o BDecode(s, pp + 1, pp1, (base64val(At(s, pp)) * Pow2(8 - (k - 2))) % 256, k - 2)
  ELSE BDecode(s, pp + 1, pp1, (b + base64val(At(s, pp)) * Pow2(k + 2)) % 256, k + 6)

\* The C string a buffer holds: its bytes before the first NUL.
CString(d) == SubSeq(d, 1, Lowest({i \in 1..(Len(d) + 1) : i = Len(d) + 1 \/ d[i] = 0}) - 1)

\* strfcpy(d, s, len): at most len - 1 bytes of the C string.
strfcpy(d, len) == IF len <= 0 THEN <<>> ELSE SubSeq(CString(d), 1, Min2(Len(CString(d)), len - 1))

\* U+FFFD in UTF-8
ReplacementChar == <<239, 191, 189>>

\* The character set a name in an encoded word stands for.
CharsetNamed(name) ==
  IF name = <<117, 116, 102, 45, 56>> THEN Utf8
  ELSE IF name = <<105, 115, 111, 45, 56, 56, 53, 57, 45, 49>> THEN Latin1
  ELSE IF name = <<117, 115, 45, 97, 115, 99, 105, 105>> THEN UsAscii
  ELSE NoCharset

\* mutt_convert_string(&d, from, to, MUTT_ICONV_HOOK_FROM): best effort; the
\* text stays as it is when the converter does not know a name, and a byte
\* that cannot be converted becomes the replacement character.
LenientOut(U, to) ==
  [p \in DOMAIN U |-> IF U[p].st = "ok" THEN U[p].out
                      ELSE IF to = "utf8" THEN ReplacementChar ELSE <<63>>]

ConvertLenient(d, from, to) == Cat(LenientOut(IconvUnits(d, from, to), to), 1, Len(d))

mutt_convert_string(d, from, to) ==
  IF IconvOpenFails(from, to) THEN d ELSE ConvertLenient(d, from.kind, to.kind)

\* mutt_filter_unprintable(&d): a control character becomes '?', a byte that
\* is no part of a character of the display character set the replacement
\* character.
FilterOut(d, U) ==
  [p \in DOMAIN U |-> IF U[p].st # "ok" THEN ReplacementChar
                      ELSE IF U[p].k = 1 /\ (d[p] < 32 \/ d[p] = 127) THEN <<63>>
                      ELSE U[p].out]

mutt_filter_unprintable(d) ==
  Cat(FilterOut(d, IconvUnits(d, Charset.kind, Charset.kind)), 1, Len(d))

(***************************************************************************)
(* rfc2047_decode_word(d, s + p, len): the word that starts at offset p of *)
(* s, which find_encoded_word has accepted, so that the delimiters of its  *)
(* charset and encoding parts are there.  Result: [rv, out], out what d    *)
(* holds afterwards.                                                       *)
(***************************************************************************)
\* Lines 667-672 of the fourth turn: the '?' that has '=' behind it.
TextEnd(s, pp1) ==
  IF pp1 < 0 THEN pp1
  ELSE First({x \in pp1..(Len(s) - 1) : At(s, x) = 63 /\ At(s, x + 1) = 61})

\* Lines 678-681: the charset name, cut at a '*'.
CharsetPart(s, pp, pp1, star) ==
  Span(s, pp, (IF star >= 0 /\ star < pp1 THEN star ELSE pp1) - pp)

\* Lines 684-689: the encoding.
EncodingOf(c) ==
  IF c = 81 \/ c = 113 THEN "Q" ELSE IF c = 66 \/ c = 98 THEN "B" ELSE "none"

\* Lines 736-739: d0 is converted, filtered and copied to d.
DecodedWord(d0, charset, len) ==
  [rv |-> 0,
   out |-> strfcpy(mutt_filter_unprintable(
                     mutt_convert_string(CString(d0), CharsetNamed(charset), Charset)), len)]

\* Lines 691-729 with pp1 the end of the encoded text.
DecodeText(s, charset, enc, pp, pp1, len) ==
  IF pp1 < 0 THEN [rv |-> -1, out |-> <<>>]
  ELSE DecodedWord(IF enc = "Q" THEN QDecode(s, pp, pp1) ELSE BDecode(s, pp, pp1, 0, 0),
                   charset, len)

\* The third turn of the loop, q3 the '?' behind the encoding.
DecodeEncoding(s, charset, enc, q3, len) ==
  IF enc = "none" THEN [rv |-> -1, out |-> <<>>]
  ELSE DecodeText(s, charset, enc, q3 + 1, TextEnd(s, NextChar(s, q3 + 1, 63)), len)

\* The second turn of the loop, q2 the '?' behind the charset.
DecodeCharset(s, q1, q2, len) ==
  DecodeEncoding(s, CharsetPart(s, q1 + 1, q2, NextChar(s, q1 + 1, 42)),
                 EncodingOf(At(s, q2 + 1)), NextChar(s, q2 + 1, 63), len)

\* The first turn of the loop, q1 the '?' of "=?".
DecodeWordFrom(s, q1, len) == DecodeCharset(s, q1, NextChar(s, q1 + 1, 63), len)

rfc2047_decode_word(s, p, len) == DecodeWordFrom(s, NextChar(s, p, 63), len)

(***************************************************************************)
(* rfc2047_decode.  o holds the options: o.lws is                          *)
(* OPT_IGNORE_LINEAR_WHITE_SPACE, o.assumed the list AssumedCharset (empty *)
(* when it is not set).                                                    *)
(***************************************************************************)
LwsChars == {32, 9, 13, 10}

\* lwslen(s, n): the length of the white space that [pos, pos+n) starts with.
lwslen(s, pos, n) ==
  Lowest({k \in 0..Max2(n, 0) : k >= n \/ At(s, pos + k) \notin LwsChars})

\* lwsrlen(s, n): the length of the white space that [pos, pos+n) ends with.
lwsrlen(s, pos, n) ==
  Lowest({k \in 0..Max2(n, 0) : k >= n \/ At(s, pos + n - 1 - k) \notin LwsChars})

\* strspn(s + pos, " \t\r\n")
strspn(s, pos) ==
  Lowest({k \in 0..Max2(Len(s) - pos, 0) : pos + k >= Len(s) \/ At(s, pos + k) \notin LwsChars})

\* The test of lines 812 and 850 without found_encoded.
LeadingLws_always(s, pos, n, found_encoded) == lwslen(s, pos, n)

\* Lines 812 and 850: found_encoded && (m = lwslen(s, n)) != 0
LeadingLws(s, pos, n, found_encoded) == IF found_encoded THEN lwslen(s, pos, n) ELSE 0

\* convert_nonmime_string(&ps): the text converted from the first character
\* set of the list (from entry p on) that converts it.
RECURSIVE NonMimeFrom(_, _, _)
NonMimeTried(ps, assumed, p, c) ==
  IF c.n # -1 THEN CString(c.t) ELSE NonMimeFrom(ps, assumed, p + 1)

NonMimeFrom(ps, assumed, p) ==
  IF ps = <<>> THEN ps
  ELSE IF p > Len(assumed) THEN mutt_convert_string(ps, assumed[1], Charset)
  ELSE IF assumed[p].len = 0 THEN ps
  ELSE NonMimeTried(ps, assumed, p, convert_string(ps, assumed[p], Charset))

convert_nonmime_string(ps, assumed) == NonMimeFrom(ps, assumed, 1)

\* Lines 814-839 with m the white space to skip: the rest of the text.
TailCopy(s, pos, dlen, out, o, m) ==
  IF o.assumed # <<>>
    THEN (IF m # 0 /\ m # Len(s) - pos THEN Append(out, 32) ELSE out)
         \o convert_nonmime_string(Span(s, pos + m, Len(s) - pos - m), o.assumed)
  ELSE IF m # 0 /\ m # Len(s) - pos
    THEN Append(out, 32) \o Span(s, pos + m, Min2(Len(s) - pos - m, dlen - 1))
  ELSE out \o Span(s, pos + m, Min2(Len(s) - pos - m, dlen))

\* Lines 806-840: no encoded word is left.
DecodeTail(s, pos, dlen, found_encoded, out, o) ==
  TailCopy(s, pos, dlen, out, o,
           IF o.lws THEN LeadingLws(s, pos, Len(s) - pos, found_encoded) ELSE 0)

\* Lines 862-876 with the n bytes copied as they are.
GapBody_verbatim(s, pos, n, dlen, out, m) ==
  [out |-> out \o Span(s, pos, Min2(n, dlen)), dlen |-> dlen - Min2(n, dlen)]

\* Lines 862-876 with m = n - lwsrlen(s, n): [out, dlen].
GapBody(s, pos, n, dlen, out, m) ==
  IF m = 0 THEN [out |-> out, dlen |-> dlen]
  ELSE IF Min2(m, dlen) # n
    THEN [out |-> Append(out \o Span(s, pos, Min2(m, dlen)), 32),
          dlen |-> dlen - Min2(m, dlen) - 1]
  ELSE [out |-> out \o Span(s, pos, Min2(m, dlen)), dlen |-> dlen - Min2(m, dlen)]

\* The test of line 852 without m != n.
GapSpace_always(m, n) == m # 0

\* Lines 850-852: a space stands for the white space skipped.
GapSpace(m, n) == m # 0 /\ m # n

\* Lines 850-876 with m the white space the gap starts with.
GapCollapse(s, pos, n, dlen, out, m) ==
  IF GapSpace(m, n)
    THEN GapBody(s, pos + m, n - m, dlen - 1, Append(out, 32),
                 (n - m) - lwsrlen(s, pos + m, n - m))
  ELSE GapBody(s, pos + m, n - m, dlen, out, (n - m) - lwsrlen(s, pos + m, n - m))

\* Lines 843-886: the text [pos, pos+n) before an encoded word: [out, dlen].
DecodeGap(s, pos, n, dlen, found_encoded, out, o) ==
  IF n = 0 THEN [out |-> out, dlen |-> dlen]
  ELSE IF o.lws THEN GapCollapse(s, pos, n, dlen, out, LeadingLws(s, pos, n, found_encoded))
  ELSE IF ~found_encoded \/ strspn(s, pos) # n
    THEN [out |-> out \o Span(s, pos, Min2(n, dlen)), dlen |-> dlen - Min2(n, dlen)]
  ELSE [out |-> out, dlen |-> dlen]

\* Lines 888-892: what the word leaves in d.
WordText(s, p, dlen, w) == IF w.rv = -1 THEN strfcpy(Span(s, p, Len(s) - p), dlen) ELSE w.out

RECURSIVE DecodeLoop(_, _, _, _, _, _)
\* Lines 893-897.
DecodeAppend(s, q, dlen, out, o, w) ==
  DecodeLoop(s, q, dlen - Len(w), TRUE, out \o w, o)

\* Line 888 with g what the gap left.
DecodeWord(s, f, o, g) ==
  DecodeAppend(s, f.x, g.dlen, g.out, o,
               WordText(s, f.p, g.dlen, rfc2047_decode_word(s, f.p, g.dlen)))

\* Lines 805-806 with f the result of find_encoded_word.
DecodeFound(s, pos, dlen, found_encoded, out, o, f) ==
  IF ~f.found THEN DecodeTail(s, pos, dlen, found_encoded, out, o)
  ELSE DecodeWord(s, f, o, DecodeGap(s, pos, f.p - pos, dlen, found_encoded, out, o))

DecodeLoop(s, pos, dlen, found_encoded, out, o) ==
  IF pos >= Len(s) \/ dlen <= 0 THEN out
  ELSE DecodeFound(s, pos, dlen, found_encoded, out, o, find_encoded_word(s, pos))

\* Line 800: the room of the output.
DecodeRoom(s) == 4 * Len(s)

rfc2047_decode(s, o) == IF s = <<>> THEN s ELSE DecodeLoop(s, 0, DecodeRoom(s), FALSE, <<>>, o)

(***************************************************************************)
(* rfc2047_decode on its own, called again on its own output.              *)
(***************************************************************************)
\* Largest number of pieces of a generated text.
MaxPieces == 3
\* The number of calls of rfc2047_decode in a row.
MaxDecodes == 2

\* "=?utf-8?Q?"
OpenQ == <<61, 63, 117, 116, 102, 45, 56, 63, 81, 63>>
\* "?="
Close == <<63, 61>>
\* "=?utf-8?Q?a?="
WordA == OpenQ \o <<97>> \o Close
\* "=?utf-8?B?Yg==?=", the letter b
WordB == <<61, 63, 117, 116, 102, 45, 56, 63, 66, 63, 89, 103, 61, 61>> \o Close
\* "=?iso-8859-1?Q?=E9?=", U+00E9
WordE == <<61, 63, 105, 115, 111, 45, 56, 56, 53, 57, 45, 49, 63, 81, 63, 61, 69, 57>> \o Close
\* "=?utf-8?Q?=3D=3Futf-8=3FQ=3Fc=3F=3D?=", which spells "=?utf-8?Q?c?="
WordNested ==
  OpenQ \o <<61, 51, 68, 61, 51, 70, 117, 116, 102, 45, 56, 61, 51, 70, 81, 61, 51, 70,
             99, 61, 51, 70, 61, 51, 68>> \o Close
\* "\n\t"
FoldPoint == <<10, 9>>

\* The pieces of a text: words, white space, letters, a lone "=?", U+00E9
\* in ISO-8859-1.
Pieces == {WordA, WordB, WordE, WordNested, FoldPoint, <<32>>, <<97>>, <<61, 63>>, <<233>>}

AssumedLists == {<<>>, <<Latin1>>, <<UsAscii, Utf8>>}

InitDec ==
  /\ EncIdle
  /\ CsIdle
  /\ ScanIdle
  /\ pd \in TextsOf(Pieces, MaxPieces)
  /\ options \in [lws : BOOLEAN, assumed : AssumedLists]
  /\ hist = <<>>

\* rfc2047_decode(&pd)
Decode ==
  /\ pc = "idle"
  /\ Len(hist) < MaxDecodes
  /\ hist' = Append(hist, pd)
  /\ pd' = rfc2047_decode(pd, options)
  /\ UNCHANGED <<options, encvars, csvars, scanvars>>

NextDec == Decode

SpecDec == InitDec /\ [][NextDec]_vars

\* The two encoded words of a text that is one word, a fold point and
\* another word: [two, w1, w2].
FoldedSecond(s, f1, f2) ==
  [two |-> f2.found /\ f2.p = f1.x + 2 /\ f2.x = Len(s),
   w1 |-> SubSeq(s, 1, f1.x), w2 |-> SubSeq(s, f1.x + 3, Len(s))]

FoldedFirst(s, f1) ==
  IF f1.found /\ f1.p = 0 /\ At(s, f1.x) = 10 /\ At(s, f1.x + 1) = 9
    THEN FoldedSecond(s, f1, find_encoded_word(s, f1.x + 2))
  ELSE [two |-> FALSE, w1 |-> <<>>, w2 |-> <<>>]

TwoWordsFolded(s) == FoldedFirst(s, find_encoded_word(s, 0))

\* The text was decoded once, with the white space option set.
DecodedOnceLws == pc = "idle" /\ Len(hist) = 1 /\ options.lws

\* C5 as stated: a second call of rfc2047_decode returns the text the first
\* call returned.
C5_Idempotent == Len(hist) = 2 => pd = hist[2]

\* C5 amended: when AssumedCharset is not set, rfc2047_decode returns a text
\* in which find_encoded_word finds no word as it is; so a second call
\* returns the text the first call returned whenever that text holds no
\* encoded word.
C5_WordFreeUnchanged ==
  \A k \in 1..Len(hist) :
    options.assumed = <<>> /\ ~find_encoded_word(hist[k], 0).found
      => (IF k = Len(hist) THEN pd ELSE hist[k + 1]) = hist[k]

\* A text with an encoded word was decoded to another text, which holds no
\* encoded word and came back from the second call as it was.
C5_Witness ==
  /\ Len(hist) = 2 /\ options.assumed = <<>>
  /\ find_encoded_word(hist[1], 0).found /\ hist[2] # hist[1]
  /\ ~find_encoded_word(hist[2], 0).found /\ pd = hist[2]

\* C7 as stated: with the white space option set, two encoded words with a
\* fold point between them decode to the text of the first, one space and
\* the text of the second.
C7_OneSpace ==
  DecodedOnceLws /\ TwoWordsFolded(hist[1]).two =>
    pd = rfc2047_decode(TwoWordsFolded(hist[1]).w1, options) \o <<32>>
         \o rfc2047_decode(TwoWordsFolded(hist[1]).w2, options)

\* C7 amended: with the white space option set, two encoded words with a
\* fold point between them decode to the text of the first and the text of
\* the second with nothing between them.
C7_NoSpace ==
  DecodedOnceLws /\ TwoWordsFolded(hist[1]).two =>
    pd = rfc2047_decode(TwoWordsFolded(hist[1]).w1, options)
         \o rfc2047_decode(TwoWordsFolded(hist[1]).w2, options)

\* Two different words with a fold point between them were decoded.
C7_Witness ==
  /\ DecodedOnceLws /\ TwoWordsFolded(hist[1]).two
  /\ TwoWordsFolded(hist[1]).w1 # TwoWordsFolded(hist[1]).w2
  /\ Len(pd) = 2

(***************************************************************************)
(* rfc2047_encode on a text of ASCII characters, and rfc2047_decode on the *)
(* text it returns.  The decoder is followed for a text returned without   *)
(* an encoded word, which is u.                                            *)
(***************************************************************************)
\* 'a', space, "=?", "=?utf-8?Q?a?=" and "?="
TripPieces == {<<97>>, <<32>>, <<61, 63>>, WordA, Close}

TripConfigs == {<<Utf8, <<Utf8>>>>, <<NoCharset, <<Utf8>>>>}

TripCols == {0, 66}

InitTrip ==
  /\ pc = "encode"
  /\ \E d \in TextsOf(TripPieces, MaxPieces), c \in TripCols, cf \in TripConfigs,
        sp \in BOOLEAN :
       arg = [d |-> d, col |-> c, fromcode |-> cf[1], charsets |-> cf[2], specials |-> sp]
  /\ EncLocals
  /\ CsIdle
  /\ ScanIdle
  /\ pd = <<>> /\ hist = <<>>
  /\ options \in [lws : BOOLEAN, assumed : {<<>>, <<Latin1>>}]

\* rfc2047_decode(&e) on the text rfc2047_encode returned
TripDecode ==
  /\ pc = "done"
  /\ Words(buf) = <<>>
  /\ pc' = "decoded"
  /\ hist' = <<u>>
  /\ pd' = rfc2047_decode(u, options)
  /\ UNCHANGED <<arg, u, icode, ret, tocode, t0, t1, t, col, encw, buf, trials, ndebug,
                 failed, options, csvars, scanvars>>

NextTrip == EncPrepare \/ EncStep \/ EncFinish \/ TripDecode

SpecTrip == InitTrip /\ [][NextTrip]_vars

\* The text to encode is ASCII and holds none of the special characters.
AsciiPlain ==
  \A i \in 1..Len(arg.d) :
    arg.d[i] < 128 /\ (arg.specials => arg.d[i] \notin RFC822Specials)

\* "=?" stands at the start of the text or behind a space or a tab.
MarkAtStart(d) ==
  \E i \in 0..(Len(d) - 1) :
    At(d, i) = 61 /\ At(d, i + 1) = 63 /\ (i = 0 \/ At(d, i - 1) \in {32, 9})

\* C4 as stated: an ASCII text without special characters is returned by
\* rfc2047_encode as it is, without an encoded word, and rfc2047_decode
\* returns that text as it is.
C4_RoundTrip ==
  AsciiPlain =>
    /\ pc = "done" => buf = <<Raw(0, Len(arg.d))>> /\ u = arg.d
    /\ pc = "decoded" => pd = arg.d

\* C4 amended: an ASCII text without special characters in which "=?" stands
\* neither at the start nor behind a space or a tab is returned by
\* rfc2047_encode as it is, without an encoded word; and rfc2047_decode
\* returns that text as it is when AssumedCharset is not set and
\* find_encoded_word finds no encoded word in it.
C4_RoundTripPlain ==
  AsciiPlain /\ ~MarkAtStart(arg.d) =>
    /\ pc \in {"encode", "done", "decoded"}
    /\ pc \in {"done", "decoded"} => buf = <<Raw(0, Len(arg.d))>> /\ u = arg.d
    /\ pc = "decoded" /\ options.assumed = <<>> /\ ~find_encoded_word(arg.d, 0).found
         => pd = arg.d

\* A text with "=?" in its middle went through both functions unchanged.
C4_Witness ==
  /\ pc = "decoded" /\ AsciiPlain /\ ~MarkAtStart(arg.d)
  /\ \E i \in 1..(Len(arg.d) - 1) : At(arg.d, i) = 61 /\ At(arg.d, i + 1) = 63
  /\ options.assumed = <<>> /\ pd = arg.d /\ buf = <<Raw(0, Len(arg.d))>>

(***************************************************************************)
(* find_encoded_word(s, &x) turn by turn of its loop, lines 755-780, on    *)
(* s = text + off.                                                         *)
(***************************************************************************)
\* Largest number of pieces of a text to scan.
MaxScan == 4

\* "=?a?Q?"
OpenA == <<61, 63, 97, 63, 81, 63>>

\* The start of a word, "?=", "=?", 'a', a line feed and '?'
ScanPieces == {OpenA, Close, <<61, 63>>, <<97>>, <<10>>, <<63>>}

ScanOffsets == {0, 1, 2}

\* Line 759 is done: q = s.
InitFind ==
  /\ EncIdle
  /\ DecIdle
  /\ CsIdle
  /\ TurnIdle
  /\ fpc = "search"
  /\ \E x \in TextsOf(ScanPieces, MaxScan), o \in ScanOffsets :
       o <= Len(x) /\ fs = [text |-> x, off |-> o]
  /\ fq = fs.off /\ fp = -1 /\ fx = -1 /\ flast = -1

\* Line 760: p = strstr(q, "=?"); line 779 when there is none.
FindSearch ==
  /\ fpc = "search"
  /\ fp' = StrStrMark(fs.text, fq)
  /\ fpc' = IF fp' < 0 THEN "none" ELSE "check"
  /\ UNCHANGED <<fs, fq, fx, flast, turnvars, encvars, decvars, csvars>>

\* Line 764: the charset part is not followed by '?', 'B' or 'Q', '?'.
FindTokenFails(s, q) ==
  \/ At(s, q) # 63 \/ At(s, q + 1) = 0 \/ At(s, q + 1) \notin {66, 98, 81, 113}
  \/ At(s, q + 2) # 63

\* Line 769: the encoded text is not followed by "?=".
FindTextFails(s, q) == At(s, q) # 63 \/ At(s, q + 1) # 61

\* Lines 771-772 with the search resumed at the "=?" that failed.
FindResume_atmark(p, q) == p

\* Lines 771-772: q--; continue;
FindResume(p, q) == q - 1

\* Lines 767-776 with q behind the encoded text.
FindCheckText(q) ==
  IF FindTextFails(fs.text, q)
    THEN /\ fq' = FindResume(fp, q) /\ flast' = fp /\ fpc' = "search"
         /\ UNCHANGED fx
    ELSE /\ fq' = q /\ fx' = q + 2 /\ fpc' = "found"
         /\ UNCHANGED flast

\* Lines 762-765 with q behind the charset part.
FindCheckToken(q) ==
  IF FindTokenFails(fs.text, q)
    THEN /\ fq' = q /\ flast' = fp /\ fpc' = "search"
         /\ UNCHANGED fx
    ELSE FindCheckText(SkipText(fs.text, q + 3))

\* Lines 762-776: the body of the loop.
FindCheck ==
  /\ fpc = "check"
  /\ FindCheckToken(SkipToken(fs.text, fp + 2))
  /\ UNCHANGED <<fs, fp, turnvars, encvars, decvars, csvars>>

NextFind == FindSearch \/ FindCheck

SpecFind == InitFind /\ [][NextFind]_vars

\* The function runs on until it returns.
FairFind == SpecFind /\ WF_vars(NextFind)

FindReturned == fpc \in {"found", "none"}

\* What it returns is what find_encoded_word, computed in one piece, gives.
FindAgrees ==
  FindReturned =>
    LET f == find_encoded_word(fs.text, fs.off)
    IN  /\ f.found <=> fpc = "found"
        /\ f.found => f.p = fp /\ f.x = fx

\* Every search starts within the text, at or behind the offset given and
\* behind the "=?" that failed before; the "=?" looked at lie one behind the
\* other; a match starts at or behind the offset given and ends directly
\* behind its "?=".
FindProgress ==
  /\ fq >= fs.off /\ fq <= Len(fs.text)
  /\ flast # -1 => fq > flast /\ flast >= fs.off
  /\ fpc = "check" => fp >= fq
  /\ fpc \in {"check", "found"} =>
       /\ fp >= fs.off /\ fp > flast
       /\ At(fs.text, fp) = 61 /\ At(fs.text, fp + 1) = 63
  /\ fpc = "found" =>
       /\ fx > fp + 2 /\ fx <= Len(fs.text)
       /\ At(fs.text, fx - 2) = 63 /\ At(fs.text, fx - 1) = 61

\* C11: find_encoded_word returns on every text: after a "=?" at p has failed
\* the grammar the next search starts behind p, never at or before it, so
\* that the "=?" looked at lie at increasing offsets; and a match starts at
\* or behind the offset given and ends behind its "?=".
C11_ForwardProgress == []FindProgress /\ <>FindReturned

\* A match returned after a "=?" that had a charset and an encoding but no
\* "?=" behind its text.
C11_Witness ==
  /\ fpc = "found" /\ flast # -1
  /\ ~FindTokenFails(fs.text, SkipToken(fs.text, flast + 2))
  /\ fp > flast /\ fx = Len(fs.text)

(***************************************************************************)
(* rfc2047_decode(&pd) turn by turn of its loop, lines 788-904.  gap holds *)
(* what the last turn did with the text before the encoded word it found:  *)
(* [n, text, found, room, out], n = p - s, text the n bytes, found and     *)
(* room the values of found_encoded and dlen at line 843, out the bytes    *)
(* written for the gap.                                                    *)
(***************************************************************************)
\* Two words, a fold point, a space, 'a', "=?" and " a\t"
TurnPieces == {WordA, WordE, FoldPoint, <<32>>, <<97>>, <<61, 63>>, <<32, 97, 9>>}

InitTurn ==
  /\ EncIdle
  /\ CsIdle
  /\ FindIdle
  /\ pd \in TextsOf(TurnPieces, MaxPieces)
  /\ options \in [lws : BOOLEAN, assumed : {<<>>, <<Latin1>>}]
  /\ hist = <<>>
  /\ dpc = "call"
  /\ TurnLocals

\* Lines 797-801.
DecodeEnter ==
  /\ dpc = "call"
  /\ IF pd = <<>> THEN dpc' = "returned" /\ UNCHANGED droom
     ELSE dpc' = "loop" /\ droom' = DecodeRoom(pd)
  /\ UNCHANGED <<ds, dd, dfound, gap, findvars, encvars, decvars, csvars>>

\* Lines 843-897 with f the encoded word found and g what the gap left.
TurnWord(f, g) ==
  LET w == WordText(pd, f.p, g.dlen, rfc2047_decode_word(pd, f.p, g.dlen))
  IN  /\ gap' = [n |-> f.p - ds, text |-> Span(pd, ds, f.p - ds), found |-> dfound,
                 room |-> droom, out |-> SubSeq(g.out, Len(dd) + 1, Len(g.out))]
      /\ dd' = g.out \o w
      /\ droom' = g.dlen - Len(w)
      /\ dfound' = TRUE
      /\ ds' = f.x
      /\ dpc' = "loop"

\* Lines 805-897 with f the result of find_encoded_word.
TurnFound(f) ==
  IF ~f.found
    THEN /\ dd' = DecodeTail(pd, ds, droom, dfound, dd, options)
         /\ dpc' = "break"
         /\ UNCHANGED <<ds, droom, dfound, gap>>
    ELSE TurnWord(f, DecodeGap(pd, ds, f.p - ds, droom, dfound, dd, options))

\* Lines 803-898: one turn of the loop.
DecodeTurn ==
  /\ dpc = "loop"
  /\ ds < Len(pd) /\ droom > 0
  /\ TurnFound(find_encoded_word(pd, ds))
  /\ UNCHANGED <<findvars, encvars, decvars, csvars>>

\* Lines 899-903: the loop is left and *pd takes the output.
DecodeLeave ==
  /\ dpc = "break" \/ (dpc = "loop" /\ ~(ds < Len(pd) /\ droom > 0))
  /\ hist' = Append(hist, pd)
  /\ pd' = dd
  /\ dpc' = "returned"
  /\ UNCHANGED <<options, ds, dd, droom, dfound, gap, findvars, encvars, csvars>>

NextTurn == DecodeEnter \/ DecodeTurn \/ DecodeLeave

SpecTurn == InitTurn /\ [][NextTurn]_vars

\* What the call leaves in *pd is what rfc2047_decode, computed in one piece,
\* gives.
TurnAgrees == dpc = "returned" /\ hist # <<>> => pd = rfc2047_decode(hist[1], options)

\* The length of the white space a text starts with, and ends with.
LeadLws(x) == Lowest({k \in 0..Len(x) : k = Len(x) \/ x[k + 1] \notin LwsChars})
TrailLws(x) == Lowest({k \in 0..Len(x) : k = Len(x) \/ x[Len(x) - k] \notin LwsChars})

\* The text x with the a bytes it starts with and the b bytes it ends with
\* each replaced by one space.
Collapsed(x, a, b) ==
  (IF a > 0 THEN <<32>> ELSE <<>>) \o SubSeq(x, a + 1, Len(x) - b)
  \o (IF b > 0 THEN <<32>> ELSE <<>>)

\* What is written for the gap x.
GapWritten(x, found, lws) ==
  IF TrailLws(x) = Len(x) THEN (IF found \/ lws THEN <<>> ELSE x)
  ELSE IF lws THEN Collapsed(x, IF found THEN LeadLws(x) ELSE 0, TrailLws(x))
  ELSE x

\* A turn of the loop has handled a gap.
GapHandled == gap.n > 0

\* C12 as stated: the text before an encoded word is written as it is unless
\* an encoded word was decoded before it and the white space option is set.
C12_GapVerbatim ==
  GapHandled /\ ~(gap.found /\ options.lws) => gap.out = gap.text

\* C12 amended: a gap of white space only is written as it is when no
\* encoded word was decoded before it and the white space option is not set,
\* and else is dropped; any other gap is written as it is when the option is
\* not set, and with the option set its trailing white space, and after an
\* encoded word its leading white space too, is written as one space each;
\* this for a gap the room left takes.
C12_GapCollapsed ==
  GapHandled /\ gap.room >= gap.n =>
    gap.out = GapWritten(gap.text, gap.found, options.lws)

\* With the option set, text that ends with a fold point stood before the
\* first encoded word and was written with one space for the fold point.
C12_Witness ==
  /\ GapHandled /\ options.lws /\ ~gap.found /\ gap.room >= gap.n
  /\ TrailLws(gap.text) = 2 /\ gap.out # gap.text
  /\ gap.out = Append(SubSeq(gap.text, 1, gap.n - 2), 32)

=============================================================================
